---- MODULE Spec2Model ----
(***************************************************************************)
(* A model of the watch-only Elements wallet of src/wollet/src/wallet.rs:  *)
(* the cache-backed store, address issuance, the UTXO view, the PSET       *)
(* builder (createpset, issueasset) and the two synchronisation entry      *)
(* points (sync_txs, sync_tip).                                            *)
(*                                                                         *)
(* Amounts are Rust u64 values.  They are modelled at a reduced width of   *)
(* WordBits bits, so that the additions of tot_out and balance_from_utxos  *)
(* wrap in the model where they wrap in a release build (and panic where   *)
(* a build with overflow checks panics).                                   *)
(***************************************************************************)
EXTENDS Integers, Sequences, FiniteSets, TLC

(***************************************************************************)
(* Bounds of the model.                                                    *)
(***************************************************************************)
WordBits == 13
MaxIndex == 4
MaxHeight == 1
Gap == 1
MaxCalls == 2

(***************************************************************************)
(* Program constants.                                                      *)
(***************************************************************************)
DefaultFee == 1000
IssuanceFee == 1000

U64Modulus == 2 ^ WordBits
U64Max == U64Modulus - 1

(***************************************************************************)
(* Option<T>: None is the empty tuple, Some(x) the one-element tuple.      *)
(***************************************************************************)
None == <<>>
Some(x) == <<x>>
IsSome(o) == o # <<>>
Unwrap(o) == o[1]

Front(s) == SubSeq(s, 1, Len(s) - 1)
Last(s) == s[Len(s)]
Range(s) == {s[i] : i \in 1..Len(s)}
Max(a, b) == IF a >= b THEN a ELSE b

\* Every ordering of a finite set, as sequences without repetition: the
\* iteration orders a HashMap with these keys can show.
Orders(S) == {s \in [1..Cardinality(S) -> S] : \A i, j \in 1..Cardinality(S) : i # j => s[i] # s[j]}

(***************************************************************************)
(* Assets.  The policy asset comes from the network configuration; the     *)
(* asset strings of the send API parse to an AssetId or fail.              *)
(***************************************************************************)
PolicyAsset == "LBTC"
OtherAsset == "USDT"

\* AssetId::from_str: the strings that parse, and what they parse to.
AssetFromStr(s) == IF s = "hex:USDT" THEN Some(OtherAsset)
                   ELSE IF s = "hex:LBTC" THEN Some(PolicyAsset)
                   ELSE None

(***************************************************************************)
(* Descriptor and address derivation.                                      *)
(***************************************************************************)
\* The blinding-key variants of a confidential descriptor.
KeyVariants == {"Slip77", "View", "Bare"}

\* descriptor.descriptor.at_derivation_index(index): the script of a child.
DeriveScript(index) == <<"spk", index>>

ConvertBlindingKeyMutBareOk(key) == Some(key)
convert_blinding_key(key) == IF key = "Bare" THEN None ELSE Some(key)

\* derive_address: Err(BlindingBareUnsupported) for a Bare key, otherwise the
\* confidential address of the child: its script and the blinding public key
\* the descriptor's blinding key gives for that script.
derive_address(key, index) ==
    IF convert_blinding_key(key) = None
    THEN [ok |-> FALSE, err |-> "BlindingBareUnsupported"]
    ELSE [ok |-> TRUE,
          address |-> [script_pubkey |-> DeriveScript(index),
                       blinding_pubkey |-> Some(<<"bpk", Unwrap(convert_blinding_key(key)), DeriveScript(index)>>)]]

(***************************************************************************)
(* The chain the indexer serves: two transactions.  Transaction 1 pays     *)
(* the wallet three outputs; transaction 2 spends the first of them and    *)
(* pays the wallet one output.  A TxOut carries its script and, hidden in  *)
(* its commitments, an asset and a value.                                  *)
(***************************************************************************)
Txids == {1, 2}
ForeignOutPoint == <<9, 0>>
EmptyScript == <<>>

TxOut(script, asset, value) == [script_pubkey |-> script, asset |-> asset, value |-> value]

ChainTx(txid) ==
    IF txid = 1
    THEN [txid |-> 1,
          input |-> <<ForeignOutPoint>>,
          output |-> <<TxOut(DeriveScript(0), PolicyAsset, 3000),
                       TxOut(DeriveScript(1), OtherAsset, 2000),
                       TxOut(DeriveScript(1), PolicyAsset, 600)>>]
    ELSE [txid |-> 2,
          input |-> << <<1, 0>> >>,
          output |-> <<TxOut(DeriveScript(0), PolicyAsset, 600),
                       TxOut(<<"ext", "x">>, PolicyAsset, 1400),
                       TxOut(EmptyScript, PolicyAsset, 1000)>>]

\* Block hashes: two competing blocks at every height above genesis.
BlockHashes(height) == IF height = 0 THEN {<<0, "a">>} ELSE {<<height, "a">>, <<height, "b">>}
Tips == {t \in (0..MaxHeight) \X UNION {BlockHashes(k) : k \in 0..MaxHeight} : t[2] \in BlockHashes(t[1])}

\* What the indexer may answer in one round: a tip and, for the wallet's
\* scripts, a history (txid -> confirmation height or None) that is
\* consistent with that tip and with transaction 2 spending transaction 1.
Histories(tipHeight) ==
    {h \in UNION {[D -> {None} \cup {Some(k) : k \in 1..tipHeight}] : D \in SUBSET Txids} :
        2 \in DOMAIN h =>
            /\ 1 \in DOMAIN h
            /\ (h[1] = None => h[2] = None)
            /\ (IsSome(h[1]) /\ IsSome(h[2]) => Unwrap(h[2]) >= Unwrap(h[1]))}
BackendViews == {v \in [tip : Tips, hist : Histories(MaxHeight)] : v.hist \in Histories(v.tip[1])}

(***************************************************************************)
(* The wallet.  tip .. unblinded are the fields of store.cache;            *)
(* persisted is the copy of the cache on disk; descriptor is the blinding  *)
(* key variant of the wallet's descriptor.  res is the outcome of the last *)
(* operation and handed the set of indices address() has returned an       *)
(* address for (history, for the claims).                                  *)
(***************************************************************************)
VARIABLES tip, last_index, paths, all_txs, heights, unblinded,
          persisted, descriptor, res, handed, esplora

cache == <<tip, last_index, paths, all_txs, heights, unblinded>>
vars == <<tip, last_index, paths, all_txs, heights, unblinded, persisted, descriptor, res, handed, esplora>>

EmptyMap == [x \in {} |-> x]

CacheRecord == [tip |-> tip, last_index |-> last_index, paths |-> paths,
                all_txs |-> all_txs, heights |-> heights, unblinded |-> unblinded]

\* No operation is under way: the caller holds no result.
Idle == [op |-> "idle"]

\* No blocking Esplora client has been constructed.
NoEsplora == [built |-> FALSE, rt |-> 0, client |-> None, calls |-> <<>>, polled |-> None, ret |-> Idle]

\* new_store on a fresh directory: an empty cache at the genesis tip.
NewCache == [tip |-> <<0, <<0, "a">> >>, last_index |-> 0, paths |-> EmptyMap,
             all_txs |-> EmptyMap, heights |-> EmptyMap, unblinded |-> EmptyMap]

\* ConfidentialDescriptor::from_str: the descriptor strings and the
\* blinding-key variant each parses to; "junk" does not parse.
DescriptorStrings == {"ct(slip77(k),elwpkh(xpub/*))", "ct(xprv,elwpkh(xpub/*))", "ct(pubkey,elwpkh(xpub/*))", "junk"}
ParseDescriptor(desc) ==
    IF desc = "ct(slip77(k),elwpkh(xpub/*))" THEN Some("Slip77")
    ELSE IF desc = "ct(xprv,elwpkh(xpub/*))" THEN Some("View")
    ELSE IF desc = "ct(pubkey,elwpkh(xpub/*))" THEN Some("Bare")
    ELSE None

\* inner_new: the descriptor is parsed, the store is created, the wallet is
\* returned; the variant of the blinding key is not looked at.
inner_new(desc) ==
    IF ParseDescriptor(desc) = None THEN [ok |-> FALSE, err |-> "DescriptorError"]
    ELSE [ok |-> TRUE, descriptor |-> Unwrap(ParseDescriptor(desc)), store |-> NewCache]

\* The blinding keys of the wallets of Spec, SpecBuilder, SpecView and
\* SpecCrash: they are opened with a SLIP-77 descriptor.
WalletKeys == {"Slip77"}

Init ==
    /\ tip = NewCache.tip
    /\ last_index = NewCache.last_index
    /\ paths = NewCache.paths
    /\ all_txs = NewCache.all_txs
    /\ heights = NewCache.heights
    /\ unblinded = NewCache.unblinded
    /\ persisted = NewCache
    /\ descriptor \in WalletKeys
    /\ res = Idle
    /\ handed = {}
    /\ esplora = NoEsplora

\* A wallet right after a successful ElectrumWallet::new, whatever the
\* descriptor string.
InitOpen ==
    \E desc \in DescriptorStrings :
        /\ inner_new(desc).ok
        /\ descriptor = inner_new(desc).descriptor
        /\ tip = inner_new(desc).store.tip
        /\ last_index = inner_new(desc).store.last_index
        /\ paths = inner_new(desc).store.paths
        /\ all_txs = inner_new(desc).store.all_txs
        /\ heights = inner_new(desc).store.heights
        /\ unblinded = inner_new(desc).store.unblinded
        /\ persisted = inner_new(desc).store
        /\ res = Idle
        /\ handed = {}
        /\ esplora = NoEsplora

(***************************************************************************)
(* The UTXO view.                                                          *)
(***************************************************************************)
\* store.spent(): every outpoint an input of a stored transaction refers to.
spent == UNION {Range(all_txs[t].input) : t \in DOMAIN all_txs}

\* utxos() fails when a txid of heights has no transaction in all_txs.
utxos_err == \E t \in DOMAIN heights : t \notin DOMAIN all_txs

\* The two filters of utxos(): the outpoint is not spent, and the wallet
\* has unblinded it.
IsUnspentOwnedMutNoSpentFilter(outpoint) == outpoint \in DOMAIN unblinded
IsUnspentOwned(outpoint) == outpoint \notin spent /\ outpoint \in DOMAIN unblinded

\* The unspent unblinded outputs of one transaction, in vout order.
RECURSIVE TxTxos(_, _, _)
TxTxos(tx, height, vout) ==
    IF vout >= Len(tx.output) THEN <<>>
    ELSE LET outpoint == <<tx.txid, vout>>
             output == tx.output[vout + 1]
             rest == TxTxos(tx, height, vout + 1)
         IN IF IsUnspentOwned(outpoint)
            THEN <<[txo |-> [outpoint |-> outpoint, script_pubkey |-> output.script_pubkey, height |-> height],
                    unblinded |-> unblinded[outpoint]]>> \o rest
            ELSE rest

\* txos.sort_by(|a, b| b.value.cmp(&a.value)): a stable sort, descending by
\* value; equal values keep the order they were collected in.
InsertByValueDesc(sorted, x) ==
    LET k == Cardinality({i \in 1..Len(sorted) : sorted[i].unblinded.value >= x.unblinded.value})
    IN SubSeq(sorted, 1, k) \o <<x>> \o SubSeq(sorted, k + 1, Len(sorted))

RECURSIVE SortByValueDesc(_)
SortByValueDesc(s) ==
    IF s = <<>> THEN <<>> ELSE InsertByValueDesc(SortByValueDesc(Front(s)), Last(s))

RECURSIVE CollectTxos(_)
CollectTxos(order) ==
    IF order = <<>> THEN <<>>
    ELSE TxTxos(all_txs[Head(order)], heights[Head(order)], 0) \o CollectTxos(Tail(order))

\* utxos(), given the order in which the heights map is iterated.
utxos(order) == SortByValueDesc(CollectTxos(order))

\* asset_utxos(asset)
asset_utxos(order, asset) == SelectSeq(utxos(order), LAMBDA u : u.unblinded.asset = asset)

(***************************************************************************)
(* u64 arithmetic: a += b wraps in a build without overflow checks.        *)
(***************************************************************************)
WrappingAdd(a, b) == (a + b) % U64Modulus
WrappingSub(a, b) == (a - b + U64Modulus) % U64Modulus

\* r.entry(key).or_default() += value, on a map kept as a function; ovf
\* records that an addition left the 64-bit range.
EntryAdd(r, key, value) ==
    LET old == IF key \in DOMAIN r.map THEN r.map[key] ELSE 0
    IN [map |-> [k \in DOMAIN r.map \cup {key} |-> IF k = key THEN WrappingAdd(old, value) ELSE r.map[k]],
        ovf |-> r.ovf \/ old + value > U64Max]

\* balance_from_utxos
RECURSIVE BalanceFold(_, _)
BalanceFold(r, us) ==
    IF us = <<>> THEN r
    ELSE BalanceFold(EntryAdd(r, Head(us).unblinded.asset, Head(us).unblinded.value), Tail(us))

balance_from_utxos_mut_no_policy_entry(us) == BalanceFold([map |-> EmptyMap, ovf |-> FALSE], us)
balance_from_utxos(us) == BalanceFold([map |-> [a \in {PolicyAsset} |-> 0], ovf |-> FALSE], us)

(***************************************************************************)
(* Results: Ok(val) or Err(err).                                           *)
(***************************************************************************)
Ok(v) == [ok |-> TRUE, val |-> v]
Err(e) == [ok |-> FALSE, err |-> e]

(***************************************************************************)
(* transactions().                                                         *)
(***************************************************************************)
\* height.unwrap_or(u32::MAX): the sort key of a transaction; the key of an
\* unconfirmed one is above every height.
UnconfirmedKey == MaxHeight + 1
HeightKey(height) == IF height = None THEN UnconfirmedKey ELSE Unwrap(height)

\* The comparator of my_txids.sort_by: txid a does not sort after txid b.
\* Heights descending, then txids descending.
NotAfterMutTxidAscending(a, b) ==
    \/ HeightKey(heights[a]) > HeightKey(heights[b])
    \/ HeightKey(heights[a]) = HeightKey(heights[b]) /\ a <= b
NotAfter(a, b) ==
    \/ HeightKey(heights[a]) > HeightKey(heights[b])
    \/ HeightKey(heights[a]) = HeightKey(heights[b]) /\ a >= b

\* The stable sort of the txids collected from the heights map.
InsertTxid(sorted, x) ==
    LET k == Cardinality({i \in 1..Len(sorted) : NotAfter(sorted[i], x)})
    IN SubSeq(sorted, 1, k) \o <<x>> \o SubSeq(sorted, k + 1, Len(sorted))

RECURSIVE SortTxids(_)
SortTxids(s) == IF s = <<>> THEN <<>> ELSE InsertTxid(SortTxids(Front(s)), Last(s))

\* transactions(), given the order in which the heights map is iterated.
transactions(order) ==
    IF \E t \in DOMAIN heights : t \notin DOMAIN all_txs THEN Err("Generic")
    ELSE Ok([i \in 1..Len(order) |->
                [tx |-> all_txs[SortTxids(order)[i]], height |-> heights[SortTxids(order)[i]]]])

(***************************************************************************)
(* Validation of the recipients.                                           *)
(***************************************************************************)
\* Address::parse_with_params: the strings that parse, and the address each
\* parses to ("ct:" confidential, "un:" without a blinding key).
ParseAddress(s) ==
    IF s = "ct:a" THEN Some([script_pubkey |-> <<"ext", "a">>, blinding_pubkey |-> Some(<<"bpk", "ext", "a">>)])
    ELSE IF s = "ct:b" THEN Some([script_pubkey |-> <<"ext", "b">>, blinding_pubkey |-> Some(<<"bpk", "ext", "b">>)])
    ELSE IF s = "un:a" THEN Some([script_pubkey |-> <<"ext", "a">>, blinding_pubkey |-> None])
    ELSE None

validate_address_mut_accepts_unconfidential(s) ==
    IF ParseAddress(s) = None THEN Err("AddressError") ELSE Ok(Unwrap(ParseAddress(s)))

validate_address(s) ==
    IF ParseAddress(s) = None THEN Err("AddressError")
    ELSE IF Unwrap(ParseAddress(s)).blinding_pubkey = None THEN Err("NotConfidentialAddress")
    ELSE Ok(Unwrap(ParseAddress(s)))

validate_asset(s) ==
    IF s = "" THEN Ok(PolicyAsset)
    ELSE IF AssetFromStr(s) = None THEN Err("InvalidAsset")
    ELSE Ok(Unwrap(AssetFromStr(s)))

\* An addressee of the API is <<satoshi, address, asset>>.
validate_addressee(a) ==
    IF ~validate_address(a[2]).ok THEN validate_address(a[2])
    ELSE IF ~validate_asset(a[3]).ok THEN validate_asset(a[3])
    ELSE Ok([satoshi |-> a[1], address |-> validate_address(a[2]).val, asset |-> validate_asset(a[3]).val])

\* collect::<Result<Vec<_>, _>>(): the first error, or all addressees.
RECURSIVE validate_addressees(_)
validate_addressees(as) ==
    IF as = <<>> THEN Ok(<<>>)
    ELSE LET h == validate_addressee(Head(as))
             t == validate_addressees(Tail(as))
         IN IF ~h.ok THEN h ELSE IF ~t.ok THEN t ELSE Ok(<<h.val>> \o t.val)

RECURSIVE TotOutFold(_, _)
TotOutFold(r, as) ==
    IF as = <<>> THEN r
    ELSE TotOutFold(EntryAdd(r, Head(as).asset, Head(as).satoshi), Tail(as))

tot_out(as) == TotOutFold([map |-> [a \in {PolicyAsset} |-> 0], ovf |-> FALSE], as)

(***************************************************************************)
(* Address issuance.                                                       *)
(***************************************************************************)
\* address() on a wallet whose last_index is li: the index is advanced, then
\* the address of the new index derived.
address_mut_decrement(li) == [last_index |-> li - 1, index |-> li - 1, result |-> derive_address(descriptor, li - 1)]
address_mut_no_advance(li) == [last_index |-> li, index |-> li, result |-> derive_address(descriptor, li)]
address(li) == [last_index |-> li + 1, index |-> li + 1, result |-> derive_address(descriptor, li + 1)]

(***************************************************************************)
(* createpset.                                                             *)
(***************************************************************************)
\* Lines 375-389: over the assets of tot_out, in the map's iteration order:
\* fail when the wallet is short of one, issue a change address for each
\* asset with change.  li is last_index so far, issued the new indices.
RECURSIVE ChangeLoop(_, _, _, _, _, _)
ChangeLoop(assets, tin, tout, li, changes, issued) ==
    IF assets = <<>> THEN [err |-> None, last_index |-> li, changes |-> changes, issued |-> issued]
    ELSE LET asset == Head(assets)
             satoshi_out == tout[asset]
             satoshi_in == IF asset \in DOMAIN tin THEN tin[asset] ELSE 0
             satoshi_change == satoshi_in - satoshi_out
             a == address(li)
         IN IF satoshi_in < satoshi_out
            THEN [err |-> Some("InsufficientFunds"), last_index |-> li, changes |-> changes, issued |-> issued]
            ELSE IF satoshi_change > 0
            THEN IF ~a.result.ok
                 THEN [err |-> Some(a.result.err), last_index |-> a.last_index, changes |-> changes, issued |-> issued]
                 ELSE ChangeLoop(Tail(assets), tin, tout, a.last_index,
                                 Append(changes, [satoshi |-> satoshi_change, address |-> a.result.address, asset |-> asset]),
                                 Append(issued, a.index))
            ELSE ChangeLoop(Tail(assets), tin, tout, li, changes, issued)

\* get_txout
get_txout_mut_vout_one_based(outpoint) ==
    IF outpoint[1] \notin DOMAIN all_txs THEN Err("MissingTransaction")
    ELSE IF outpoint[2] + 1 >= Len(all_txs[outpoint[1]].output) THEN Err("MissingVout")
    ELSE Ok(all_txs[outpoint[1]].output[outpoint[2] + 1])
get_txout(outpoint) ==
    IF outpoint[1] \notin DOMAIN all_txs THEN Err("MissingTransaction")
    ELSE IF outpoint[2] >= Len(all_txs[outpoint[1]].output) THEN Err("MissingVout")
    ELSE Ok(all_txs[outpoint[1]].output[outpoint[2] + 1])

\* script_info: the derivation path of a cached script.
script_info(script) ==
    IF script \notin DOMAIN paths THEN Err("Generic") ELSE Ok(<<paths[script]>>)

\* Whether the input loop takes a UTXO: only those of an asset being sent.
IsSelectedMutFirstOnly(us, i, tout) ==
    /\ us[i].unblinded.asset \in DOMAIN tout
    /\ \A j \in 1..(i - 1) : us[j].unblinded.asset # us[i].unblinded.asset
IsSelected(us, i, tout) == us[i].unblinded.asset \in DOMAIN tout

InputOf(utxo) == [previous_output |-> utxo.txo.outpoint,
                  witness_utxo |-> get_txout(utxo.txo.outpoint).val,
                  bip32_derivation |-> script_info(utxo.txo.script_pubkey).val]

InputErr(utxo) ==
    IF ~get_txout(utxo.txo.outpoint).ok THEN Some(get_txout(utxo.txo.outpoint).err)
    ELSE IF ~script_info(utxo.txo.script_pubkey).ok THEN Some(script_info(utxo.txo.script_pubkey).err)
    ELSE None

\* Lines 396-417: the inputs, and the map from the position of each taken
\* UTXO in utxos (0-based) to its unblinded record.
RECURSIVE InputLoop(_, _, _, _, _)
InputLoop(us, i, tout, inputs, secrets) ==
    IF i > Len(us) THEN [err |-> None, inputs |-> inputs, inp_txout_sec |-> secrets]
    ELSE IF ~IsSelected(us, i, tout) THEN InputLoop(us, i + 1, tout, inputs, secrets)
    ELSE IF InputErr(us[i]) # None THEN [err |-> InputErr(us[i]), inputs |-> inputs, inp_txout_sec |-> secrets]
    ELSE InputLoop(us, i + 1, tout, Append(inputs, InputOf(us[i])),
                   [k \in DOMAIN secrets \cup {i - 1} |-> IF k = i - 1 THEN us[i].unblinded ELSE secrets[k]])

\* add_output
add_output(addressee) == [script_pubkey |-> addressee.address.script_pubkey,
                          amount |-> Some(addressee.satoshi),
                          asset |-> Some(addressee.asset),
                          blinding_key |-> addressee.address.blinding_pubkey,
                          blinder_index |-> Some(0)]

\* Output::new_explicit(Script::default(), fee, policy_asset, None)
fee_output(fee) == [script_pubkey |-> EmptyScript, amount |-> Some(fee), asset |-> Some(PolicyAsset),
                    blinding_key |-> None, blinder_index |-> None]

MapSeq(s, F(_)) == [i \in 1..Len(s) |-> F(s[i])]

OutputsMutFeeFirst(addressees, changes, fee) ==
    <<fee_output(fee)>> \o MapSeq(addressees, add_output) \o MapSeq(changes, add_output)
Outputs(addressees, changes, fee) ==
    MapSeq(addressees, add_output) \o MapSeq(changes, add_output) \o <<fee_output(fee)>>

\* The outcome of createpset(addressees, fee) on the current store:
\*   order        the iteration order of the heights map in utxos(),
\*   asset_order  the iteration order of the tot_out map,
\*   checks       whether the build panics on integer overflow,
\*   blind_ok     whether the blinding primitive (blind_last) succeeds.
\* status is "ok", "err" or "panic"; last_index is the index after the call.
\* blind_args is what blind_last was called with, when the call got there.
createpset(addressees, fee_opt, order, asset_order, checks, blind_ok) ==
    LET v == validate_addressees(addressees)
        us == utxos(order)
        fee == IF fee_opt = None THEN DefaultFee ELSE Unwrap(fee_opt)
        tin == balance_from_utxos(us)
        tout == EntryAdd(tot_out(v.val), PolicyAsset, fee)
        ch == ChangeLoop(SelectSeq(asset_order, LAMBDA a : a \in DOMAIN tout.map),
                         tin.map, tout.map, last_index, <<>>, <<>>)
        inp == InputLoop(us, 1, tout.map, <<>>, EmptyMap)
        base == [status |-> "err", last_index |-> last_index, issued |-> <<>>]
    IN IF ~v.ok THEN base @@ [err |-> v.err]
       ELSE IF utxos_err THEN base @@ [err |-> "Generic"]
       ELSE IF checks /\ (tin.ovf \/ tout.ovf) THEN [base EXCEPT !.status = "panic"] @@ [err |-> "overflow"]
       ELSE IF ch.err # None
            THEN [status |-> "err", last_index |-> ch.last_index, issued |-> ch.issued, err |-> Unwrap(ch.err)]
       ELSE IF inp.err # None
            THEN [status |-> "err", last_index |-> ch.last_index, issued |-> ch.issued, err |-> Unwrap(inp.err)]
       ELSE IF ~blind_ok
            THEN [status |-> "err", last_index |-> ch.last_index, issued |-> ch.issued, err |-> "PsetBlindError",
                  blind_args |-> [inputs |-> inp.inputs, inp_txout_sec |-> inp.inp_txout_sec]]
       ELSE [status |-> "ok", last_index |-> ch.last_index, issued |-> ch.issued,
             blind_args |-> [inputs |-> inp.inputs, inp_txout_sec |-> inp.inp_txout_sec],
             utxos |-> us, tot_in |-> tin.map, tot_out |-> tout.map, fee |-> fee,
             addressees |-> v.val, addressees_change |-> ch.changes,
             inp_txout_sec |-> inp.inp_txout_sec,
             pset |-> [inputs |-> inp.inputs, outputs |-> Outputs(v.val, ch.changes, fee)]]

(***************************************************************************)
(* issueasset.                                                             *)
(***************************************************************************)
ZeroContractHashMutFromLastIndex == <<"contract", last_index>>
ZeroContractHash == "00..00"

\* AssetId::generate_asset_entropy and Input::issuance_ids: functions of the
\* prevout and the contract hash alone.
generate_asset_entropy(prevout, contract_hash) == <<"entropy", prevout, contract_hash>>
issuance_ids(entropy) == [asset |-> <<"asset", entropy>>, token |-> <<"token", entropy>>]

\* The outcome of issueasset(satoshi_asset, satoshi_token) on the current
\* store; the parameters order, checks and blind_ok are as for createpset.
issueasset(satoshi_asset, satoshi_token, order, checks, blind_ok) ==
    LET us == asset_utxos(order, PolicyAsset)
        utxo == us[1]
        fee == IssuanceFee
        entropy == generate_asset_entropy(utxo.txo.outpoint, ZeroContractHash)
        ids == issuance_ids(entropy)
        input == [previous_output |-> utxo.txo.outpoint,
                  witness_utxo |-> get_txout(utxo.txo.outpoint).val,
                  bip32_derivation |-> script_info(utxo.txo.script_pubkey).val,
                  issuance_value_amount |-> Some(satoshi_asset),
                  issuance_inflation_keys |-> IF satoshi_token > 0 THEN Some(satoshi_token) ELSE None,
                  issuance_asset_entropy |-> Some(entropy)]
        satoshi_change == WrappingSub(utxo.unblinded.value, fee)
        a1 == address(last_index)
        a2 == address(a1.last_index)
        a3 == address(IF satoshi_token > 0 THEN a2.last_index ELSE a1.last_index)
        addressees ==
            <<[satoshi |-> satoshi_asset, address |-> a1.result.address, asset |-> ids.asset]>>
            \o (IF satoshi_token > 0
                THEN <<[satoshi |-> satoshi_token, address |-> a2.result.address, asset |-> ids.token]>>
                ELSE <<>>)
            \o <<[satoshi |-> satoshi_change, address |-> a3.result.address, asset |-> PolicyAsset]>>
        issued == <<a1.index>> \o (IF satoshi_token > 0 THEN <<a2.index>> ELSE <<>>) \o <<a3.index>>
        base == [status |-> "err", last_index |-> last_index, issued |-> <<>>]
    IN IF utxos_err THEN base @@ [err |-> "Generic"]
       ELSE IF us = <<>> THEN [base EXCEPT !.status = "panic"] @@ [err |-> "index out of bounds"]
       ELSE IF InputErr(utxo) # None THEN base @@ [err |-> Unwrap(InputErr(utxo))]
       ELSE IF checks /\ utxo.unblinded.value < fee THEN [base EXCEPT !.status = "panic"] @@ [err |-> "overflow"]
       ELSE IF ~a1.result.ok
            THEN [status |-> "err", last_index |-> a1.last_index, issued |-> <<>>, err |-> a1.result.err]
       ELSE IF satoshi_token > 0 /\ ~a2.result.ok
            THEN [status |-> "err", last_index |-> a2.last_index, issued |-> <<a1.index>>, err |-> a2.result.err]
       ELSE IF ~a3.result.ok
            THEN [status |-> "err", last_index |-> a3.last_index, issued |-> Front(issued), err |-> a3.result.err]
       ELSE IF ~blind_ok
            THEN [status |-> "err", last_index |-> a3.last_index, issued |-> issued, err |-> "PsetBlindError"]
       ELSE [status |-> "ok", last_index |-> a3.last_index, issued |-> issued,
             utxo |-> utxo, fee |-> fee, asset |-> ids.asset, token |-> ids.token,
             inp_txout_sec |-> [k \in {0} |-> utxo.unblinded],
             pset |-> [inputs |-> <<input>>, outputs |-> Outputs(addressees, <<>>, fee)]]

(***************************************************************************)
(* One synchronisation round (crate::sync::sync), against the answers      *)
(* view of the indexer.                                                    *)
(***************************************************************************)
\* The transactions of the view's history that pay to, or spend from, a script.
ScriptHistory(view, script) ==
    {t \in DOMAIN view.hist :
        \/ \E i \in 1..Len(ChainTx(t).output) : ChainTx(t).output[i].script_pubkey = script
        \/ \E i \in 1..Len(ChainTx(t).input) :
              LET o == ChainTx(t).input[i]
              IN /\ o[1] \in Txids
                 /\ ChainTx(o[1]).output[o[2] + 1].script_pubkey = script}

\* The gap-limit scan: the frontier is extended while a script within Gap
\* of it shows history.
RECURSIVE ScanFrontier(_, _)
ScanFrontier(view, li) ==
    LET used == {i \in (li + 1)..(li + Gap) : ScriptHistory(view, DeriveScript(i)) # {}}
    IN IF used = {} THEN li ELSE ScanFrontier(view, CHOOSE i \in used : \A j \in used : j <= i)

\* The cache a round commits.
sync(view) ==
    LET frontier == ScanFrontier(view, last_index)
        scanned == 0..(frontier + Gap)
        new_paths == [sc \in DOMAIN paths \cup {DeriveScript(i) : i \in scanned} |->
                         IF sc \in DOMAIN paths THEN paths[sc]
                         ELSE CHOOSE i \in scanned : DeriveScript(i) = sc]
        history == UNION {ScriptHistory(view, DeriveScript(i)) : i \in scanned}
        new_txs == [t \in DOMAIN all_txs \cup history |-> IF t \in DOMAIN all_txs THEN all_txs[t] ELSE ChainTx(t)]
        owned == {o \in history \X (0..2) :
                     /\ o[2] < Len(new_txs[o[1]].output)
                     /\ new_txs[o[1]].output[o[2] + 1].script_pubkey \in DOMAIN new_paths}
    IN [tip |-> view.tip,
        last_index |-> frontier,
        paths |-> new_paths,
        all_txs |-> new_txs,
        heights |-> [t \in history |-> view.hist[t]],
        unblinded |-> [o \in owned |-> [asset |-> new_txs[o[1]].output[o[2] + 1].asset,
                                        value |-> new_txs[o[1]].output[o[2] + 1].value]]]

(***************************************************************************)
(* The operations.                                                         *)
(***************************************************************************)
\* Every operation is a method on the wallet handle.  createpset, address,
\* sync_txs and sync_tip borrow it exclusively (&mut self), so a call starts
\* only when no other call on the handle is in progress.
HandleFreeMutSharedBorrow == res = Idle \/ res.op = "createpset_begun"
HandleFree == res = Idle

SetCache(c) ==
    /\ tip' = c.tip
    /\ last_index' = c.last_index
    /\ paths' = c.paths
    /\ all_txs' = c.all_txs
    /\ heights' = c.heights
    /\ unblinded' = c.unblinded

\* address()
Address ==
    /\ HandleFree
    /\ last_index < MaxIndex
    /\ LET a == address(last_index)
       IN /\ last_index' = a.last_index
          /\ handed' = IF a.result.ok THEN handed \cup {a.index} ELSE handed
          /\ res' = [op |-> "address", status |-> IF a.result.ok THEN "ok" ELSE "err",
                     before |-> last_index, index |-> a.index, result |-> a.result,
                     reused |-> a.result.ok /\ a.index \in handed]
    /\ UNCHANGED <<tip, paths, all_txs, heights, unblinded, persisted, descriptor, esplora>>

\* What a PSET-builder call with outcome r leaves in the cache: address() is
\* its only mutation.
BuilderCacheMutRegistersPaths(r) ==
    [CacheRecord EXCEPT !.last_index = r.last_index,
                        !.paths = [sc \in DOMAIN paths \cup {DeriveScript(i) : i \in Range(r.issued)} |->
                                      IF sc \in DOMAIN paths THEN paths[sc]
                                      ELSE CHOOSE i \in Range(r.issued) : DeriveScript(i) = sc]]
BuilderCache(r) == [CacheRecord EXCEPT !.last_index = r.last_index]

Builder(op, args, r) ==
    /\ HandleFree
    /\ r.last_index <= MaxIndex
    /\ SetCache(BuilderCache(r))
    /\ handed' = handed \cup Range(r.issued)
    /\ res' = r @@ [op |-> op, args |-> args, before |-> last_index,
                    reused |-> Range(r.issued) \cap handed # {}]
    /\ UNCHANGED <<persisted, descriptor, esplora>>

Assets == {PolicyAsset, OtherAsset}

CreatePset(op, addressees) ==
    \E order \in Orders(DOMAIN heights), asset_order \in Orders(Assets), checks \in BOOLEAN, blind_ok \in BOOLEAN :
        Builder(op, addressees, createpset(addressees, None, order, asset_order, checks, blind_ok))

\* sendlbtc(satoshi, address)
SendLbtcArgs ==
    { <<200, "ct:a">>, <<2000, "ct:a">>, <<2600, "ct:a">>, <<U64Modulus - 1000, "ct:a">>,
      <<200, "un:a">>, <<200, "junk">> }

SendLbtc ==
    \E a \in SendLbtcArgs : CreatePset("sendlbtc", << <<a[1], a[2], "">> >>)

\* sendasset(satoshi, address, asset)
SendAssetArgs ==
    { <<200, "ct:a", "hex:USDT">>, <<2000, "ct:a", "hex:USDT">>, <<2600, "ct:a", "hex:USDT">>,
      <<200, "ct:b", "">>, <<200, "ct:a", "bad">>, <<200, "un:a", "hex:USDT">> }

SendAsset ==
    \E a \in SendAssetArgs : CreatePset("sendasset", << <<a[1], a[2], a[3]>> >>)

\* sendmany(addressees)
SendManyArgs ==
    { <<>>,
      << <<200, "ct:a", "">>, <<200, "ct:b", "hex:USDT">> >>,
      << <<200, "ct:a", "hex:USDT">>, <<2600, "ct:b", "">> >>,
      << <<2000, "ct:a", "">>, <<U64Modulus - 2000, "ct:b", "hex:LBTC">> >>,
      << <<200, "ct:a", "">>, <<200, "un:a", "">> >>,
      << <<200, "ct:a", "hex:USDT">>, <<200, "ct:b", "bad">> >> }

SendMany == \E addressees \in SendManyArgs : CreatePset("sendmany", addressees)

\* issueasset(satoshi_asset, satoshi_token)
IssueAsset ==
    \E satoshi_asset \in {500, 2000}, satoshi_token \in {0, 1},
       order \in Orders(DOMAIN heights), checks \in BOOLEAN, blind_ok \in BOOLEAN :
        Builder("issueasset", <<satoshi_asset, satoshi_token>>,
                issueasset(satoshi_asset, satoshi_token, order, checks, blind_ok))

\* descriptor_blinding_key(): expect() aborts on a Bare blinding key.
descriptor_blinding_key == convert_blinding_key(descriptor)

\* sync_txs(): when the client cannot be built nothing happens; otherwise
\* the blinding key is taken and a round runs, which commits or fails.  The
\* caller gets Ok(()) in every case.
SyncTxs ==
    /\ HandleFree
    /\ \/ /\ UNCHANGED <<cache, persisted>>
          /\ res' = [op |-> "sync_txs", status |-> "ok", round |-> "no client"]
       \/ /\ descriptor_blinding_key = None
          /\ UNCHANGED <<cache, persisted>>
          /\ res' = [op |-> "sync_txs", status |-> "panic", round |-> "no blinding key",
                     err |-> "No private blinding keys for bare variant"]
       \/ /\ descriptor_blinding_key # None
          /\ \/ \E view \in BackendViews :
                   /\ sync(view).last_index <= MaxIndex
                   /\ SetCache(sync(view))
                   /\ persisted' = sync(view)
                   /\ res' = [op |-> "sync_txs", status |-> "ok", round |-> "committed", view |-> view]
             \/ /\ UNCHANGED <<cache, persisted>>
                /\ res' = [op |-> "sync_txs", status |-> "ok", round |-> "sync error"]
    /\ UNCHANGED <<descriptor, esplora, handed>>

\* sync_tip()
SyncTip ==
    /\ HandleFree
    /\ \/ \E header \in Tips :
            /\ tip' = IF header[1] # tip[1] THEN header ELSE tip
            /\ res' = [op |-> "sync_tip", status |-> "ok", reached |-> TRUE, header |-> header]
       \/ /\ UNCHANGED tip
          /\ res' = [op |-> "sync_tip", status |-> "ok", reached |-> FALSE]
       \/ \E e \in {"ElectrumError", "DeserializeError"} :
            /\ UNCHANGED tip
            /\ res' = [op |-> "sync_tip", status |-> "err", err |-> e]
    /\ UNCHANGED <<last_index, paths, all_txs, heights, unblinded, persisted, descriptor, esplora, handed>>

\* utxos()
Utxos ==
    /\ HandleFree
    /\ \E order \in Orders(DOMAIN heights) :
          res' = IF utxos_err THEN [op |-> "utxos", status |-> "err", err |-> "Generic"]
                 ELSE [op |-> "utxos", status |-> "ok", val |-> utxos(order)]
    /\ UNCHANGED <<cache, persisted, descriptor, esplora, handed>>

\* balance()
Balance ==
    /\ HandleFree
    /\ \E order \in Orders(DOMAIN heights), checks \in BOOLEAN :
          res' = IF utxos_err THEN [op |-> "balance", status |-> "err", err |-> "Generic"]
                 ELSE IF checks /\ balance_from_utxos(utxos(order)).ovf
                      THEN [op |-> "balance", status |-> "panic", err |-> "overflow"]
                 ELSE [op |-> "balance", status |-> "ok", val |-> balance_from_utxos(utxos(order)).map]
    /\ UNCHANGED <<cache, persisted, descriptor, esplora, handed>>

\* tip()
TipQuery ==
    /\ HandleFree
    /\ res' = [op |-> "tip", status |-> "ok", val |-> tip]
    /\ UNCHANGED <<cache, persisted, descriptor, esplora, handed>>

\* derive_address(descriptor, index, params) called by any code of the
\* crate, with any descriptor: it takes no reference to the wallet.
DeriveAddress ==
    /\ HandleFree
    /\ \E key \in KeyVariants, index \in 0..MaxIndex :
          res' = [op |-> "derive_address", status |-> IF derive_address(key, index).ok THEN "ok" ELSE "err",
                  key |-> key, index |-> index, result |-> derive_address(key, index)]
    /\ UNCHANGED <<cache, persisted, descriptor, esplora, handed>>

\* transactions()
Transactions ==
    /\ HandleFree
    /\ \E order \in Orders(DOMAIN heights) :
          res' = IF transactions(order).ok
                 THEN [op |-> "transactions", status |-> "ok", val |-> transactions(order).val]
                 ELSE [op |-> "transactions", status |-> "err", err |-> transactions(order).err]
    /\ UNCHANGED <<cache, persisted, descriptor, esplora, handed>>

\* What the backend may do with a broadcast: the client cannot be built,
\* the request fails, or the backend answers with a txid.
BroadcastReplies ==
    {[ok |-> FALSE, err |-> "ClientError"], [ok |-> FALSE, err |-> "ElectrumError"]}
        \cup {[ok |-> TRUE, txid |-> t] : t \in Txids}

\* broadcast(tx): the txid the backend answers with is returned as it is.
broadcast(tx, reply) == IF reply.ok THEN Ok(reply.txid) ELSE Err(reply.err)

Broadcast ==
    /\ HandleFree
    /\ \E t \in Txids, reply \in BroadcastReplies :
          res' = IF broadcast(ChainTx(t), reply).ok
                 THEN [op |-> "broadcast", status |-> "ok", tx |-> ChainTx(t), reply |-> reply,
                       val |-> broadcast(ChainTx(t), reply).val]
                 ELSE [op |-> "broadcast", status |-> "err", tx |-> ChainTx(t), reply |-> reply,
                       err |-> broadcast(ChainTx(t), reply).err]
    /\ UNCHANGED <<cache, persisted, descriptor, esplora, handed>>

\* The process dies and the wallet is opened again: the cache is what the
\* store last persisted.
Reopen ==
    /\ HandleFree
    /\ SetCache(persisted)
    /\ res' = [op |-> "reopen"]
    /\ UNCHANGED <<persisted, descriptor, esplora, handed>>

\* The caller takes the result of the operation.
Return ==
    /\ res # Idle
    /\ res.op # "createpset_begun"
    /\ res' = Idle
    /\ UNCHANGED <<cache, persisted, descriptor, esplora, handed>>

Next ==
    \/ Return
    \/ Address
    \/ SendLbtc
    \/ SendAsset
    \/ SendMany
    \/ IssueAsset
    \/ SyncTxs
    \/ SyncTip
    \/ Utxos
    \/ Balance
    \/ Transactions
    \/ Broadcast
    \/ TipQuery

\* The wallet under every operation of its API.
Spec == Init /\ [][Next]_vars

\* The PSET builder on the stores synchronisation produces.
NextBuilder ==
    \/ Return
    \/ SyncTxs
    \/ SendLbtc
    \/ SendAsset
    \/ SendMany
    \/ IssueAsset

SpecBuilder == Init /\ [][NextBuilder]_vars

\* The UTXO view on the stores synchronisation produces.
NextView ==
    \/ Return
    \/ SyncTxs
    \/ Utxos
    \/ Balance
    \/ Transactions

SpecView == Init /\ [][NextView]_vars

\* Address issuance across process crashes.
NextCrash ==
    \/ Return
    \/ Address
    \/ SyncTxs
    \/ SendLbtc
    \/ Reopen

SpecCrash == Init /\ [][NextCrash]_vars

\* createpset() in two steps, the handle borrowed from the first to the
\* second.  The first validates the recipients and reads utxos() into the
\* local the rest of the call works on.
CreatePsetBegin ==
    /\ HandleFree
    /\ \E a \in SendLbtcArgs, order \in Orders(DOMAIN heights) :
          LET addressees == << <<a[1], a[2], "">> >>
          IN /\ validate_addressees(addressees).ok
             /\ ~utxos_err
             /\ res' = [op |-> "createpset_begun", call |-> "sendlbtc", args |-> addressees,
                        order |-> order, utxos |-> utxos(order)]
    /\ UNCHANGED <<cache, persisted, descriptor, esplora, handed>>

\* The second does the funds check, issues the change addresses, builds the
\* inputs and outputs and blinds.
CreatePsetEnd ==
    /\ res.op = "createpset_begun"
    /\ \E asset_order \in Orders(Assets), checks \in BOOLEAN, blind_ok \in BOOLEAN :
          LET r == createpset(res.args, None, res.order, asset_order, checks, blind_ok)
          IN /\ r.last_index <= MaxIndex
             /\ SetCache(BuilderCache(r))
             /\ handed' = handed \cup Range(r.issued)
             /\ res' = r @@ [op |-> res.call, args |-> res.args, before |-> last_index,
                             reused |-> Range(r.issued) \cap handed # {},
                             snapshot |-> res.utxos]
    /\ UNCHANGED <<persisted, descriptor, esplora>>

\* A PSET under construction while other callers try to sync and to take
\* addresses on the same handle.
NextHandle ==
    \/ Return
    \/ Address
    \/ SyncTxs
    \/ SyncTip
    \/ CreatePsetBegin
    \/ CreatePsetEnd

SpecHandle == Init /\ [][NextHandle]_vars

\* Wallets opened with any descriptor that parses.
NextOpen ==
    \/ Return
    \/ Address
    \/ SyncTxs
    \/ DeriveAddress

SpecOpen == InitOpen /\ [][NextOpen]_vars

(***************************************************************************)
(* The blocking Esplora client: a runtime and the asynchronous client.     *)
(***************************************************************************)
\* What an operation of asyncr::EsploraClient resolves to.
AsyncReplies == {Ok("r1"), Ok("r2"), Err("Http"), Err("Decode")}

\* asyncr::EsploraClient::new(network, url, waterfalls)
AsyncNew(url, waterfalls) ==
    [url |-> url, waterfalls |-> waterfalls, waterfalls_avoid_encryption |-> FALSE]

\* asyncr::EsploraClient::capabilities()
AsyncCapabilities(client) == IF client.waterfalls THEN {"Waterfalls"} ELSE {}

\* Runtime::block_on(future): drives the future to completion on the
\* client's runtime and returns its output.
block_on_mut_swallows_error(output) == IF output.ok THEN output ELSE Ok("r1")
block_on(output) == output

EsploraUrls == {"u1", "u2"}

WalletUnchanged == UNCHANGED <<cache, persisted, descriptor, res, handed>>

\* Self { rt: Runtime::new()?, client: asyncr::EsploraClient::new(..) }
Construct(op, url, waterfalls, runtime_ok) ==
    esplora' = IF runtime_ok
               THEN [built |-> TRUE, rt |-> 1, client |-> AsyncNew(url, waterfalls),
                     calls |-> <<>>, polled |-> None,
                     ret |-> [op |-> op, args |-> url, result |-> Ok("Self")]]
               ELSE [NoEsplora EXCEPT !.ret = [op |-> op, args |-> url, result |-> Err("Io")]]

\* EsploraClient::new(url, network)
EsploraNew ==
    /\ \E url \in EsploraUrls, runtime_ok \in BOOLEAN : Construct("new", url, FALSE, runtime_ok)
    /\ WalletUnchanged

\* EsploraClient::new_waterfalls(url, network)
EsploraNewWaterfalls ==
    /\ \E url \in EsploraUrls, runtime_ok \in BOOLEAN : Construct("new_waterfalls", url, TRUE, runtime_ok)
    /\ WalletUnchanged

\* waterfalls_avoid_encryption()
EsploraWaterfallsAvoidEncryption ==
    /\ esplora.built
    /\ esplora' = [esplora EXCEPT !.client.waterfalls_avoid_encryption = TRUE,
                                  !.ret = [op |-> "waterfalls_avoid_encryption", args |-> None,
                                           result |-> Ok("unit")]]
    /\ WalletUnchanged

\* self.rt.block_on(self.client.<op>(args)): one call of the asynchronous
\* operation, run to completion on the client's runtime.
BlockingCall(op, args) ==
    /\ esplora.built
    /\ Len(esplora.calls) < MaxCalls
    /\ \E output \in AsyncReplies :
          esplora' = [esplora EXCEPT !.calls = Append(@, [op |-> op, args |-> args]),
                                     !.polled = Some(output),
                                     !.ret = [op |-> op, args |-> args, result |-> block_on(output)]]
    /\ WalletUnchanged

\* waterfalls_server_recipient()
EsploraWaterfallsServerRecipient == BlockingCall("waterfalls_server_recipient", None)

\* tip()
EsploraTip == BlockingCall("tip", None)

\* broadcast(tx)
EsploraBroadcast == \E tx \in {"tx1", "tx2"} : BlockingCall("broadcast", tx)

\* get_transactions(txids)
EsploraGetTransactions ==
    \E txids \in {<<>>, <<"t1", "t2">>} : BlockingCall("get_transactions", txids)

\* get_headers(heights, height_blockhash)
EsploraGetHeaders ==
    \E heights_arg \in {<<0>>, <<1, 0>>} : BlockingCall("get_headers", <<heights_arg, EmptyMap>>)

\* get_scripts_history(scripts)
EsploraGetScriptsHistory ==
    \E scripts \in {<<"s1">>, <<"s2", "s1">>} : BlockingCall("get_scripts_history", scripts)

\* capabilities(): answered by the asynchronous client without the runtime.
EsploraCapabilities ==
    /\ esplora.built
    /\ Len(esplora.calls) < MaxCalls
    /\ esplora' = [esplora EXCEPT !.calls = Append(@, [op |-> "capabilities", args |-> None]),
                                  !.polled = Some(AsyncCapabilities(esplora.client)),
                                  !.ret = [op |-> "capabilities", args |-> None,
                                           result |-> AsyncCapabilities(esplora.client)]]
    /\ WalletUnchanged

\* get_history_waterfalls(descriptor, state)
EsploraGetHistoryWaterfalls ==
    \E state \in {"empty", "synced"} : BlockingCall("get_history_waterfalls", <<"desc", state>>)

NextEsplora ==
    \/ EsploraNew
    \/ EsploraNewWaterfalls
    \/ EsploraWaterfallsAvoidEncryption
    \/ EsploraWaterfallsServerRecipient
    \/ EsploraTip
    \/ EsploraBroadcast
    \/ EsploraGetTransactions
    \/ EsploraGetHeaders
    \/ EsploraGetScriptsHistory
    \/ EsploraCapabilities
    \/ EsploraGetHistoryWaterfalls

\* A caller of the blocking client.
SpecEsplora == Init /\ [][NextEsplora]_vars

(***************************************************************************)
(* Vocabulary of the properties.  Sums here are sums of naturals: they do  *)
(* not wrap.                                                               *)
(***************************************************************************)
CreatePsetOps == {"sendlbtc", "sendasset", "sendmany"}
BuilderOps == CreatePsetOps \cup {"issueasset"}

RECURSIVE SumSeq(_)
SumSeq(s) == IF s = <<>> THEN 0 ELSE Head(s) + SumSeq(Tail(s))

RECURSIVE SumValues(_, _)
SumValues(f, D) == IF D = {} THEN 0 ELSE LET d == CHOOSE x \in D : TRUE IN f[d] + SumValues(f, D \ {d})

\* The outpoints the wallet owns and has not spent, read off the store.
UnspentOwned == DOMAIN unblinded \ spent
UnspentValue(asset) ==
    SumValues([o \in UnspentOwned |-> unblinded[o].value], {o \in UnspentOwned : unblinded[o].asset = asset})

\* The last operation was a createpset call that returned a PSET.
PsetReturned == res.op \in CreatePsetOps /\ res.status = "ok"
\* The last operation was a createpset call whose recipients are all valid.
ValidRequest == res.op \in CreatePsetOps /\ validate_addressees(res.args).ok

AssetOfString(s) == IF s = "" THEN PolicyAsset ELSE Unwrap(AssetFromStr(s))
\* What the request sends of an asset, the default fee counted with the policy asset.
Requested(asset) ==
    SumSeq([i \in 1..Len(res.args) |-> IF AssetOfString(res.args[i][3]) = asset THEN res.args[i][1] ELSE 0])
        + (IF asset = PolicyAsset THEN DefaultFee ELSE 0)
SentAssets == {AssetOfString(res.args[i][3]) : i \in 1..Len(res.args)} \cup {PolicyAsset}

PsetInputs == res.pset.inputs
PsetOutputs == res.pset.outputs
InputValue(asset) ==
    SumSeq([i \in 1..Len(PsetInputs) |->
               IF unblinded[PsetInputs[i].previous_output].asset = asset
               THEN unblinded[PsetInputs[i].previous_output].value ELSE 0])
OutputValue(asset) ==
    SumSeq([i \in 1..Len(PsetOutputs) |->
               IF PsetOutputs[i].asset = Some(asset) THEN Unwrap(PsetOutputs[i].amount) ELSE 0])

\* The positions of the change outputs: after the recipients, before the fee.
ChangePositions == (Len(res.args) + 1)..(Len(PsetOutputs) - 1)
\* The indices address() was called for during the last operation.
NewIndices == (res.before + 1)..last_index

(***************************************************************************)
(* C1: whenever utxos() has returned, the set of outpoints it returned is  *)
(* the key set of unblinded minus the outpoints spent by an input of a     *)
(* stored transaction.                                                     *)
(***************************************************************************)
C1_UtxosAreUnspentOwned ==
    res.op = "utxos" =>
        /\ res.status = "ok"
        /\ {res.val[i].txo.outpoint : i \in 1..Len(res.val)} = DOMAIN unblinded \ spent

\* utxos() has returned some outputs and left out a spent one the wallet owns.
C1_Witness ==
    /\ res.op = "utxos"
    /\ res.status = "ok"
    /\ Len(res.val) > 0
    /\ DOMAIN unblinded \cap spent # {}

(***************************************************************************)
(* C2: no wallet operation (address, sendlbtc, sendasset, sendmany,        *)
(* issueasset, sync_txs, sync_tip, the queries) lowers last_index,         *)
(* whether it succeeds or fails.                                           *)
(***************************************************************************)
C2_LastIndexMonotonic == [][last_index' >= last_index]_vars

\* A createpset call has failed after it had advanced last_index.
C2_Witness ==
    /\ res.op \in CreatePsetOps
    /\ res.status = "err"
    /\ last_index > res.before

(***************************************************************************)
(* C3: address() never hands out a derivation index it has handed out      *)
(* before, also when the process died after an address was returned and    *)
(* the wallet was opened again from its persisted store.                   *)
(***************************************************************************)
C3_NoIndexReuse == res.op \in {"address"} \cup BuilderOps => ~res.reused

(***************************************************************************)
(* C4: every PSET createpset returns balances per asset: the unblinded     *)
(* values of its inputs of an asset add up to the explicit amounts of its  *)
(* outputs of that asset, the fee output counted as a policy-asset output. *)
(***************************************************************************)
C4_PsetBalances == PsetReturned => \A asset \in Assets : InputValue(asset) = OutputValue(asset)

(***************************************************************************)
(* C5: a valid createpset request fails with InsufficientFunds, and        *)
(* returns no PSET, whenever the wallet's unspent value of some asset is   *)
(* less than what the request sends of it (the fee counted with the policy *)
(* asset), and does not fail with InsufficientFunds otherwise.             *)
(***************************************************************************)
ShortOfFunds == \E asset \in SentAssets : UnspentValue(asset) < Requested(asset)

C5_InsufficientFunds ==
    ValidRequest =>
        /\ ShortOfFunds => res.status = "err" /\ res.err = "InsufficientFunds"
        /\ ~ShortOfFunds => ~(res.status = "err" /\ res.err = "InsufficientFunds")

(***************************************************************************)
(* C6: a PSET-builder call (createpset or issueasset), failed or not,      *)
(* leaves tip, paths, all_txs, heights and unblinded as they were, and     *)
(* does not lower last_index.                                              *)
(***************************************************************************)
C6_BuilderFrame ==
    [][res'.op \in BuilderOps =>
          /\ UNCHANGED <<tip, paths, all_txs, heights, unblinded>>
          /\ last_index' >= last_index]_vars

\* A builder call on a synchronised wallet has failed after it had issued a
\* change address.
C6_Witness ==
    /\ res.op \in BuilderOps
    /\ res.status = "err"
    /\ last_index > res.before
    /\ DOMAIN unblinded # {}

(***************************************************************************)
(* C7: after a sendlbtc that returned a PSET with a change output, the     *)
(* script of the change address is a key of paths, the index stored for it *)
(* is at most last_index, and the address derived at that index is the     *)
(* change address.                                                         *)
(***************************************************************************)
SendLbtcWithChange == res.op = "sendlbtc" /\ res.status = "ok" /\ ChangePositions # {}

IsAddressOf(output, index) ==
    /\ derive_address(descriptor, index).ok
    /\ output.script_pubkey = derive_address(descriptor, index).address.script_pubkey
    /\ output.blinding_key = derive_address(descriptor, index).address.blinding_pubkey

C7_ChangeRoundtrip ==
    SendLbtcWithChange =>
        \A p \in ChangePositions :
            /\ PsetOutputs[p].script_pubkey \in DOMAIN paths
            /\ paths[PsetOutputs[p].script_pubkey] <= last_index
            /\ IsAddressOf(PsetOutputs[p], paths[PsetOutputs[p].script_pubkey])

\* C7 as amended: the change address is the address derived at an index
\* issued during the call (above last_index before it, at most last_index
\* after it); its script is a key of paths only when a synchronisation round
\* has scanned that index, and then the index stored for it is that index.
C7_ChangeRoundtripAmended ==
    SendLbtcWithChange =>
        \A p \in ChangePositions :
            \E i \in NewIndices :
                /\ IsAddressOf(PsetOutputs[p], i)
                /\ PsetOutputs[p].script_pubkey \in DOMAIN paths => paths[PsetOutputs[p].script_pubkey] = i

\* A sendlbtc has returned a PSET whose change script no round has scanned.
C7_Witness ==
    /\ SendLbtcWithChange
    /\ \E p \in ChangePositions : PsetOutputs[p].script_pubkey \notin DOMAIN paths

(***************************************************************************)
(* C8: for each asset it sends, createpset takes that asset's UTXOs in     *)
(* descending value order and stops as soon as their sum reaches the       *)
(* required total: the inputs of the asset are the shortest such prefix.   *)
(***************************************************************************)
InputsOf(asset) ==
    {PsetInputs[i].previous_output : i \in 1..Len(PsetInputs)} \cap {o \in DOMAIN unblinded : unblinded[o].asset = asset}
UnspentOf(asset) == {o \in UnspentOwned : unblinded[o].asset = asset}

C8_ShortestPrefix ==
    PsetReturned =>
        \A asset \in DOMAIN res.tot_out :
            /\ InputsOf(asset) \subseteq UnspentOf(asset)
            /\ \A o \in InputsOf(asset), u \in UnspentOf(asset) \ InputsOf(asset) :
                   unblinded[u].value <= unblinded[o].value
            /\ InputValue(asset) >= res.tot_out[asset]
            /\ \A o \in InputsOf(asset) : InputValue(asset) - unblinded[o].value < res.tot_out[asset]

\* C8 as amended: the inputs are all the unspent outputs the wallet owns of
\* the assets of tot_out (the assets sent and the policy asset), each once,
\* in descending value order; the selection does not stop when the required
\* total is reached.
C8_AllUtxosOfSentAssets ==
    PsetReturned =>
        /\ {PsetInputs[i].previous_output : i \in 1..Len(PsetInputs)}
               = {o \in UnspentOwned : unblinded[o].asset \in SentAssets}
        /\ \A i, j \in 1..Len(PsetInputs) :
               i < j => /\ PsetInputs[i].previous_output # PsetInputs[j].previous_output
                        /\ unblinded[PsetInputs[i].previous_output].value
                               >= unblinded[PsetInputs[j].previous_output].value

\* A PSET has been returned with more inputs of an asset than its required
\* total needs.
C8_Witness ==
    /\ PsetReturned
    /\ \E asset \in DOMAIN res.tot_out :
          \E o \in InputsOf(asset) : InputValue(asset) - unblinded[o].value >= res.tot_out[asset]

(***************************************************************************)
(* C9: the outputs of a returned PSET are the recipients in the order      *)
(* given, then the change outputs, then one fee output, which is last.     *)
(* The fee output has the empty script, the fee (1000) as explicit amount, *)
(* the policy asset and no blinding key; every other output carries a      *)
(* blinding key and blinder_index 0.                                       *)
(***************************************************************************)
C9_OutputLayout ==
    PsetReturned =>
        /\ Len(PsetOutputs) >= Len(res.args) + 1
        /\ \A i \in 1..Len(res.args) :
              /\ PsetOutputs[i].script_pubkey = Unwrap(ParseAddress(res.args[i][2])).script_pubkey
              /\ PsetOutputs[i].amount = Some(res.args[i][1])
              /\ PsetOutputs[i].asset = Some(AssetOfString(res.args[i][3]))
              /\ PsetOutputs[i].blinding_key = Unwrap(ParseAddress(res.args[i][2])).blinding_pubkey
        /\ \A p \in ChangePositions : \E i \in NewIndices : IsAddressOf(PsetOutputs[p], i)
        /\ \A p \in 1..(Len(PsetOutputs) - 1) :
              /\ PsetOutputs[p].script_pubkey # EmptyScript
              /\ PsetOutputs[p].blinding_key # None
              /\ PsetOutputs[p].blinder_index = Some(0)
        /\ Last(PsetOutputs).script_pubkey = EmptyScript
        /\ Last(PsetOutputs).amount = Some(DefaultFee)
        /\ Last(PsetOutputs).asset = Some(PolicyAsset)
        /\ Last(PsetOutputs).blinding_key = None

\* A PSET with two recipients and two change outputs has been returned.
C9_Witness ==
    /\ PsetReturned
    /\ Len(res.args) = 2
    /\ Cardinality(ChangePositions) = 2

(***************************************************************************)
(* C10: a returned PSET has a change output of an asset exactly when the   *)
(* value of its inputs of that asset exceeds the total the request sends   *)
(* of it; the change amount is the difference and is never zero; the       *)
(* change outputs go to distinct addresses, each of an index issued        *)
(* during the call.                                                        *)
(***************************************************************************)
ChangeOf(asset) == {p \in ChangePositions : PsetOutputs[p].asset = Some(asset)}

C10_ChangeOutputs ==
    PsetReturned =>
        /\ \A asset \in Assets :
              /\ ChangeOf(asset) # {} <=> InputValue(asset) > Requested(asset)
              /\ Cardinality(ChangeOf(asset)) <= 1
              /\ \A p \in ChangeOf(asset) :
                    /\ PsetOutputs[p].amount = Some(InputValue(asset) - Requested(asset))
                    /\ Unwrap(PsetOutputs[p].amount) > 0
        /\ \A p \in ChangePositions : \E i \in NewIndices : IsAddressOf(PsetOutputs[p], i)
        /\ \A p, q \in ChangePositions : p # q => PsetOutputs[p].script_pubkey # PsetOutputs[q].script_pubkey

(***************************************************************************)
(* C11: a PSET returned by issueasset(satoshi_asset, satoshi_token) has    *)
(* one input, an unspent policy-asset output of the wallet, carrying the   *)
(* issuance amount satoshi_asset and inflation keys satoshi_token exactly  *)
(* when satoshi_token > 0.  Its outputs are, in order, the issued asset,   *)
(* the reissuance token (only when satoshi_token > 0), the policy-asset    *)
(* change of the input value minus the fee 1000, and the fee output; the   *)
(* outputs before the fee go to pairwise distinct addresses of indices     *)
(* issued during the call.                                                 *)
(***************************************************************************)
IssuanceReturned == res.op = "issueasset" /\ res.status = "ok"
IssuancePrevout == PsetInputs[1].previous_output
IssuanceIds == issuance_ids(generate_asset_entropy(IssuancePrevout, ZeroContractHash))

C11_IssuanceShape ==
    IssuanceReturned =>
        LET with_token == res.args[2] > 0
            n == IF with_token THEN 4 ELSE 3
        IN /\ Len(PsetInputs) = 1
           /\ IssuancePrevout \in UnspentOwned
           /\ unblinded[IssuancePrevout].asset = PolicyAsset
           /\ PsetInputs[1].issuance_value_amount = Some(res.args[1])
           /\ PsetInputs[1].issuance_inflation_keys = (IF with_token THEN Some(res.args[2]) ELSE None)
           /\ Len(PsetOutputs) = n
           /\ PsetOutputs[1].asset = Some(IssuanceIds.asset)
           /\ PsetOutputs[1].amount = Some(res.args[1])
           /\ with_token => /\ PsetOutputs[2].asset = Some(IssuanceIds.token)
                            /\ PsetOutputs[2].amount = Some(res.args[2])
           /\ PsetOutputs[n - 1].asset = Some(PolicyAsset)
           /\ PsetOutputs[n - 1].amount = Some(unblinded[IssuancePrevout].value - IssuanceFee)
           /\ PsetOutputs[n] = fee_output(IssuanceFee)
           /\ Cardinality(NewIndices) = n - 1
           /\ \A k \in 1..(n - 1) : \E i \in NewIndices : IsAddressOf(PsetOutputs[k], i)
           /\ \A k, l \in 1..(n - 1) : k # l => PsetOutputs[k].script_pubkey # PsetOutputs[l].script_pubkey

(***************************************************************************)
(* C12: an issueasset call on a wallet that cannot pay for the issuance    *)
(* (it has no unspent policy-asset output, or the one it selects, its      *)
(* largest, is worth less than the fee 1000) returns the error             *)
(* InsufficientFunds: it neither aborts nor returns a PSET.                *)
(***************************************************************************)
CannotPayIssuance ==
    \A o \in UnspentOf(PolicyAsset) : unblinded[o].value < IssuanceFee

C12_IssuanceInsufficientFunds ==
    (res.op = "issueasset" /\ CannotPayIssuance) =>
        /\ res.status = "err"
        /\ res.err = "InsufficientFunds"

(***************************************************************************)
(* C13: balance() returns a map whose keys are the policy asset and the    *)
(* assets of the unspent outputs the wallet owns, and whose value for an   *)
(* asset is the sum of the unblinded values of those outputs of that       *)
(* asset (0 for the policy asset when the wallet has none).                *)
(***************************************************************************)
C13_BalancePerAsset ==
    res.op = "balance" =>
        /\ res.status = "ok"
        /\ DOMAIN res.val = {PolicyAsset} \cup {unblinded[o].asset : o \in UnspentOwned}
        /\ \A asset \in DOMAIN res.val : res.val[asset] = UnspentValue(asset)

\* balance() has returned two assets, one of them summed over two outputs,
\* on a wallet that also owns a spent output.
C13_Witness ==
    /\ res.op = "balance"
    /\ res.status = "ok"
    /\ Cardinality(DOMAIN res.val) = 2
    /\ Cardinality(UnspentOf(PolicyAsset)) = 2
    /\ DOMAIN unblinded \cap spent # {}

(***************************************************************************)
(* C14: transactions() returns one entry for each txid of heights, the     *)
(* transaction with its height, ordered by height descending with the      *)
(* unconfirmed ones first and, within one height, by txid descending; the  *)
(* result does not depend on the order the heights map is iterated in.     *)
(***************************************************************************)
C14_TransactionsOrder ==
    res.op = "transactions" =>
        /\ res.status = "ok"
        /\ Len(res.val) = Cardinality(DOMAIN heights)
        /\ {res.val[i].tx.txid : i \in 1..Len(res.val)} = DOMAIN heights
        /\ \A i \in 1..Len(res.val) :
              /\ res.val[i].tx = all_txs[res.val[i].tx.txid]
              /\ res.val[i].height = heights[res.val[i].tx.txid]
        /\ \A i, j \in 1..Len(res.val) :
              i < j =>
                 \/ res.val[i].height = None /\ res.val[j].height # None
                 \/ /\ res.val[i].height # None
                    /\ res.val[j].height # None
                    /\ Unwrap(res.val[i].height) > Unwrap(res.val[j].height)
                 \/ /\ res.val[i].height = res.val[j].height
                    /\ res.val[i].tx.txid > res.val[j].tx.txid
        /\ \A order \in Orders(DOMAIN heights) : res.val = transactions(order).val

\* transactions() has returned two transactions of the same height.
C14_Witness ==
    /\ res.op = "transactions"
    /\ res.status = "ok"
    /\ Len(res.val) = 2
    /\ res.val[1].height = res.val[2].height

(***************************************************************************)
(* C15: the sequence utxos() returns is sorted by unblinded value          *)
(* descending, outputs of equal value by outpoint, and is the same for     *)
(* every order the heights map may be iterated in; the inputs of a PSET    *)
(* createpset returns follow that order.                                   *)
(***************************************************************************)
OutPointBefore(a, b) == a[1] < b[1] \/ (a[1] = b[1] /\ a[2] < b[2])
ValueThenOutPoint(a, b) ==
    \/ unblinded[a].value > unblinded[b].value
    \/ unblinded[a].value = unblinded[b].value /\ OutPointBefore(a, b)

C15_UtxosDeterministic ==
    /\ (res.op = "utxos" /\ res.status = "ok") =>
          /\ \A i, j \in 1..Len(res.val) :
                i < j => ValueThenOutPoint(res.val[i].txo.outpoint, res.val[j].txo.outpoint)
          /\ \A order \in Orders(DOMAIN heights) : res.val = utxos(order)
    /\ PsetReturned =>
          \A i, j \in 1..Len(PsetInputs) :
              i < j => ValueThenOutPoint(PsetInputs[i].previous_output, PsetInputs[j].previous_output)

(***************************************************************************)
(* C16: broadcast(tx) returns Ok(txid) only when the txid the backend      *)
(* answered with is the txid of tx; when the backend answers with another  *)
(* txid, broadcast returns an error.                                       *)
(***************************************************************************)
C16_BroadcastVerifiesTxid ==
    res.op = "broadcast" =>
        /\ res.status = "ok" => res.val = res.tx.txid
        /\ (res.reply.ok /\ res.reply.txid # res.tx.txid) => res.status = "err"

(***************************************************************************)
(* C17: a createpset request in which a recipient's address has no         *)
(* blinding pubkey, or a recipient's non-empty asset string is malformed,  *)
(* is rejected with the error of the first recipient that does not         *)
(* validate (NotConfidentialAddress for an address without blinding        *)
(* pubkey), never with InsufficientFunds, and last_index is as before the  *)
(* call; an empty asset string stands for the policy asset.                *)
(***************************************************************************)
Unconfidential(a) == ParseAddress(a[2]) # None /\ Unwrap(ParseAddress(a[2])).blinding_pubkey = None
MalformedAsset(a) == a[3] # "" /\ AssetFromStr(a[3]) = None
Rejected(a) == ParseAddress(a[2]) = None \/ Unconfidential(a) \/ MalformedAsset(a)
FirstRejected == CHOOSE i \in 1..Len(res.args) : Rejected(res.args[i]) /\ \A j \in 1..(i - 1) : ~Rejected(res.args[j])

C17_ValidationFirst ==
    /\ (res.op \in CreatePsetOps /\ \E i \in 1..Len(res.args) : Unconfidential(res.args[i]) \/ MalformedAsset(res.args[i])) =>
          /\ res.status = "err"
          /\ res.err = (IF ParseAddress(res.args[FirstRejected][2]) = None THEN "AddressError"
                        ELSE IF Unconfidential(res.args[FirstRejected]) THEN "NotConfidentialAddress"
                        ELSE "InvalidAsset")
          /\ last_index = res.before
    /\ PsetReturned =>
          \A i \in 1..Len(res.args) : res.args[i][3] = "" => PsetOutputs[i].asset = Some(PolicyAsset)

\* A two-recipient request whose second address has no blinding pubkey has
\* been rejected on a wallet that could not have paid for it.
C17_Witness ==
    /\ res.op \in CreatePsetOps
    /\ res.status = "err"
    /\ res.err = "NotConfidentialAddress"
    /\ Len(res.args) = 2
    /\ UnspentOwned = {}

(***************************************************************************)
(* C18: no wallet has a descriptor whose blinding key is the Bare variant  *)
(* (opening one fails before a store exists), so no operation ever runs    *)
(* on such a wallet.                                                       *)
(***************************************************************************)
C18_NoOperationOnBare ==
    res.op \in {"address", "sync_txs"} => descriptor # "Bare"

(***************************************************************************)
(* C19: the height of tip is at least every confirmed height recorded in   *)
(* heights, in every state sync_txs and sync_tip calls lead to, whichever  *)
(* way the tip of the backend moves.                                       *)
(***************************************************************************)
C19_TipAboveHeights ==
    \A t \in DOMAIN heights : heights[t] # None => Unwrap(heights[t]) <= tip[1]

(***************************************************************************)
(* C20: a sync_txs call whose round did not run to its commit (the backend *)
(* could not be reached, or the round failed) returns an error.            *)
(***************************************************************************)
C20_SyncFailureReported ==
    (res.op = "sync_txs" /\ res.round \in {"no client", "sync error"}) => res.status = "err"

C22_IssuanceIdsDeterministic ==
    IssuanceReturned =>
        /\ PsetOutputs[1].asset = Some(res.asset)
        /\ res.args[2] > 0 => PsetOutputs[2].asset = Some(res.token)
        /\ \A satoshi_asset \in {500, 2000}, satoshi_token \in {0, 1}, order \in Orders(DOMAIN heights) :
              LET again == issueasset(satoshi_asset, satoshi_token, order, FALSE, TRUE)
              IN (again.status = "ok" /\ again.pset.inputs[1].previous_output = IssuancePrevout) =>
                     /\ again.asset = res.asset
                     /\ again.token = res.token

\* An issuance with a token has been returned and a second issuance with
\* other amounts from the same prevout is possible.
C22_Witness ==
    /\ IssuanceReturned
    /\ res.args = <<500, 1>>
    /\ \E order \in Orders(DOMAIN heights) :
          LET again == issueasset(2000, 0, order, FALSE, TRUE)
          IN again.status = "ok" /\ again.pset.inputs[1].previous_output = IssuancePrevout

(***************************************************************************)
(* C23: whenever createpset calls the blinding primitive, the keys of the  *)
(* mapping it hands over are the PSET input indices 0..n-1, and the entry  *)
(* of key k is the unblinded record of the output that input k spends.     *)
(***************************************************************************)
BlindingCalled == res.op \in CreatePsetOps /\ "blind_args" \in DOMAIN res

C23_InputSecretsByInputIndex ==
    BlindingCalled =>
        /\ DOMAIN res.blind_args.inp_txout_sec = 0..(Len(res.blind_args.inputs) - 1)
        /\ \A k \in DOMAIN res.blind_args.inp_txout_sec :
              k + 1 \in 1..Len(res.blind_args.inputs) =>
                 res.blind_args.inp_txout_sec[k] = unblinded[res.blind_args.inputs[k + 1].previous_output]

(***************************************************************************)
(* C24: after a sync_tip call that reached the backend and returned Ok,    *)
(* the stored tip is the (height, block hash) of the header the backend    *)
(* answered with, whatever the tip was before.                             *)
(***************************************************************************)
C24_SyncTipStoresHeader ==
    (res.op = "sync_tip" /\ res.status = "ok" /\ res.reached) => tip = res.header

(***************************************************************************)
(* C25: while a createpset call is between its utxos() read and its        *)
(* return, the only step of the wallet is that call's completion: the      *)
(* store is not committed to, the only addresses issued are the call's own *)
(* change addresses, and the PSET is built from the UTXOs read at the      *)
(* start.                                                                  *)
(***************************************************************************)
C25_PsetOnOneSnapshot ==
    [][res.op = "createpset_begun" =>
          /\ res'.op \in CreatePsetOps
          /\ UNCHANGED <<tip, paths, all_txs, heights, unblinded, persisted>>
          /\ last_index' = last_index + Len(res'.issued)
          /\ res'.status = "ok" => res'.utxos = res.utxos]_vars

C25_Witness ==
    /\ res.op \in CreatePsetOps
    /\ "snapshot" \in DOMAIN res
    /\ res.status = "ok"
    /\ Len(res.snapshot) > 1
    /\ Len(res.issued) > 0

(***************************************************************************)
(* C26: the blocking Esplora client is an adapter: it owns one runtime     *)
(* from its construction on, and each backend operation makes exactly one  *)
(* call of the same-named asynchronous operation with the same arguments   *)
(* and returns what that call resolved to, value or error.                 *)
(***************************************************************************)
BackendOps == {"tip", "broadcast", "get_transactions", "get_headers", "get_scripts_history",
               "capabilities", "get_history_waterfalls"}

C26_BlockingIsAdapter ==
    [][(esplora' # esplora /\ esplora'.ret.op \in BackendOps) =>
          /\ esplora.rt = 1 /\ esplora'.rt = 1
          /\ esplora'.client = esplora.client
          /\ esplora'.calls = Append(esplora.calls, [op |-> esplora'.ret.op, args |-> esplora'.ret.args])
          /\ esplora'.polled = Some(esplora'.ret.result)]_vars

C26_Witness ==
    /\ esplora.ret.op = "get_headers"
    /\ esplora.ret.result = Err("Decode")
    /\ Len(esplora.calls) = 2
    /\ esplora.calls[1].op = "capabilities"

(***************************************************************************)
(* C27: every outpoint utxos() returns is found by get_txout, which        *)
(* answers the output the UTXO was made from, and no createpset or         *)
(* issueasset call fails with MissingTransaction or MissingVout.           *)
(***************************************************************************)
C27_WitnessUtxoFound ==
    /\ ~utxos_err =>
          \A order \in Orders(DOMAIN heights) :
             \A i \in 1..Len(utxos(order)) :
                /\ get_txout(utxos(order)[i].txo.outpoint).ok
                /\ get_txout(utxos(order)[i].txo.outpoint).val.script_pubkey
                      = utxos(order)[i].txo.script_pubkey
    /\ (res.op \in BuilderOps /\ res.status = "err") =>
          res.err \notin {"MissingTransaction", "MissingVout"}

C27_Witness ==
    /\ res.op \in CreatePsetOps
    /\ res.status = "ok"
    /\ \E k \in 1..Len(res.pset.inputs) :
          /\ res.pset.inputs[k].previous_output = <<1, 2>>
          /\ res.pset.inputs[k].witness_utxo = all_txs[1].output[3]

(***************************************************************************)
(* C28: the required total createpset computes for each asset is the true *)
(* sum of the amounts requested of it, the fee counted with the policy     *)
(* asset, and a valid request whose true sum of some asset exceeds the     *)
(* 64-bit range does not pass the funds check.                             *)
(***************************************************************************)
OverflowingRequest == ValidRequest /\ \E asset \in SentAssets : Requested(asset) > U64Max
PassedFundsCheck ==
    \/ res.status = "ok"
    \/ res.status = "err" /\ res.err \notin {"InsufficientFunds", "Generic"}

C28_TotOutIsTrueSum ==
    /\ PsetReturned => \A asset \in DOMAIN res.tot_out : res.tot_out[asset] = Requested(asset)
    /\ OverflowingRequest => ~PassedFundsCheck

====
